---- MODULE Spec2Model ----
(***************************************************************************)
(* Model of src/display/display.rs: DisplayDriver, the driver of a Sharp   *)
(* memory LCD.  The driver owns a framebuffer (Vec<Vec<u8>>), the VCOM     *)
(* polarity byte and an SPI device; every public method is one action.     *)
(* A Rust panic (index out of range, checked arithmetic overflow) ends the *)
(* program: it is recorded in ret and no further call is made.  Whether a  *)
(* u8 addition that overflows panics or wraps depends on the build profile *)
(* (overflow-checks); both outcomes are taken where an overflow happens.   *)
(***************************************************************************)
EXTENDS Integers, Sequences, FiniteSets, TLC

VARIABLES
    width,            \* DisplayDriver.width  (u16)
    height,           \* DisplayDriver.height (u16)
    bytes_per_line,   \* DisplayDriver.bytes_per_line (u8)
    buffer,           \* DisplayDriver.buffer: rows of bytes, 1-indexed here
    vcom,             \* DisplayDriver.vcom (u8)
    op,               \* name of the last method called ("new" after construction)
    arg,              \* arguments of the last call
    ret,              \* its outcome: ok, bounds_err, transport_err, panic, hang
    writes,           \* the frames the last call handed to device.write
    preBuffer,        \* buffer as it was when the last call started
    preVcom,          \* vcom as it was when the last call started
    prevCmd,          \* command byte of the latest frame written before the last call, -1 if none
    txCalls,          \* number of clear_display / refresh / in-range refresh_line calls made
    drawn             \* what the caller has drawn: the value of the last successful set_pixel
                      \* on each pixel since the last clear_buffer or construction, 1 where none

vars == <<width, height, bytes_per_line, buffer, vcom,
          op, arg, ret, writes, preBuffer, preVcom, prevCmd, txCalls, drawn>>

\* Bound on the number of transmission calls in one run.
MaxTx == 2

----------------------------------------------------------------------------
\* Constants of the source.

SHARPMEM_CMD_WRITE_LINE == 1

SHARPMEM_CMD_VCOM == 2

SHARPMEM_CMD_CLEAR_SCREEN == 4

SET == <<1, 2, 4, 8, 16, 32, 64, 128>>

CLR == <<254, 253, 251, 247, 239, 223, 191, 127>>

U8 == 256

----------------------------------------------------------------------------
\* Byte arithmetic.

Pow2(i) == SET[i + 1]

Bit(b, i) == (b \div Pow2(i)) % 2

RECURSIVE BitOrFrom(_, _, _)
BitOrFrom(a, b, i) ==
    IF i = 8 THEN 0
    ELSE (IF Bit(a, i) = 1 \/ Bit(b, i) = 1 THEN Pow2(i) ELSE 0) + BitOrFrom(a, b, i + 1)

BitOr(a, b) == BitOrFrom(a, b, 0)

RECURSIVE BitAndFrom(_, _, _)
BitAndFrom(a, b, i) ==
    IF i = 8 THEN 0
    ELSE (IF Bit(a, i) = 1 /\ Bit(b, i) = 1 THEN Pow2(i) ELSE 0) + BitAndFrom(a, b, i + 1)

BitAnd(a, b) == BitAndFrom(a, b, 0)

----------------------------------------------------------------------------
\* Construction.

Row(n, byte) == [j \in 1..n |-> byte]

NewBuffer(w, h) == [i \in 1..h |-> Row(w \div 8, 255)]

NewBytesPerLine(w) == (w \div 8) % U8

\* The panels the driver is constructed for: the 8x2 panel of the spec's
\* example, a panel with more than 8 byte groups per row, a panel taller than
\* an 8-bit line number, and a panel with more than 255 bytes per row.
Panels ==
    { [width |-> 8, height |-> 2], [width |-> 72, height |-> 1],
      [width |-> 8, height |-> 256], [width |-> 2048, height |-> 1] }

\* The coordinates set_pixel is called with, per panel (x and y are u16).
PixelInputs ==
    IF width = 8 /\ height = 2
    THEN {<<x, 0>> : x \in 0..8} \cup {<<0, 2>>}
    ELSE IF width = 72
    THEN {<<0, 0>>, <<8, 0>>, <<9, 0>>, <<64, 0>>, <<72, 0>>, <<0, 1>>}
    ELSE IF height = 256
    THEN {<<0, 0>>, <<7, 255>>, <<8, 0>>, <<0, 256>>}
    ELSE {<<0, 0>>, <<8, 0>>, <<2047, 0>>, <<2048, 0>>, <<0, 1>>}

\* The pixels of the panel among them.
Pixels == {q \in PixelInputs : q[1] < width /\ q[2] < height}

NoArg == [x |-> 0, y |-> 0, value |-> FALSE, line_num |-> 0]

Init ==
    /\ \E p \in Panels :
          /\ width = p.width
          /\ height = p.height
          /\ bytes_per_line = NewBytesPerLine(p.width)
          /\ buffer = NewBuffer(p.width, p.height)
          /\ preBuffer = NewBuffer(p.width, p.height)
    /\ vcom = 0
    /\ op = "new"
    /\ arg = NoArg
    /\ ret = "ok"
    /\ writes = << >>
    /\ preVcom = 0
    /\ prevCmd = -1
    /\ txCalls = 0
    /\ drawn = [q \in Pixels |-> 1]

\* A panic or a loop that never ends is the end of the program.
Alive == ret \notin {"panic", "hang"}

LastCmd == IF writes = << >> THEN prevCmd ELSE writes[Len(writes)][1]

----------------------------------------------------------------------------
\* toggle_vcom

\* The polarity toggled to the write-line flag instead of the VCOM bit.
ToggleVcomWrongBit(v) == IF v # 0 THEN 0 ELSE SHARPMEM_CMD_WRITE_LINE

ToggleVcom(v) == IF v # 0 THEN 0 ELSE SHARPMEM_CMD_VCOM

\* The polarity toggled only once the write has succeeded.
TransmitToggleOnSuccess(frame, v, written) ==
    [vcom |-> IF written THEN ToggleVcom(v) ELSE v,
     writes |-> <<frame>>,
     ret |-> IF written THEN "ok" ELSE "transport_err"]

\* The end of clear_display and of refresh: toggle_vcom(), then device.write of
\* the frame built before, whose result is the call's result.  written tells
\* whether the transport accepts the write.
Transmit(frame, v, written) ==
    [vcom |-> ToggleVcom(v),
     writes |-> <<frame>>,
     ret |-> IF written THEN "ok" ELSE "transport_err"]

----------------------------------------------------------------------------
\* set_pixel

\* The bounds check with the test of y forgotten.
OutOfBoundsXOnly(x, y) == x >= width

OutOfBounds(x, y) == x >= width \/ y >= height

Left(x) == x % 8

Whole(x) == x - Left(x)

SetPixel ==
    /\ Alive
    /\ \E p \in PixelInputs, value \in BOOLEAN :
          LET x == p[1]
              y == p[2]
          IN  /\ op' = "set_pixel"
              /\ arg' = [x |-> x, y |-> y, value |-> value, line_num |-> 0]
              /\ IF OutOfBounds(x, y)
                 THEN /\ ret' = "bounds_err"
                      /\ buffer' = buffer
                      /\ drawn' = drawn
                 ELSE IF y + 1 > Len(buffer) \/ Whole(x) + 1 > Len(buffer[y + 1])
                 THEN /\ ret' = "panic"
                      /\ buffer' = buffer
                      /\ drawn' = drawn
                 ELSE /\ ret' = "ok"
                      /\ drawn' = [drawn EXCEPT ![p] = IF value THEN 1 ELSE 0]
                      /\ buffer' =
                           [buffer EXCEPT ![y + 1][Whole(x) + 1] =
                               IF value THEN BitOr(@, SET[Left(x) + 1])
                                        ELSE BitAnd(@, CLR[Left(x) + 1])]
    /\ writes' = << >>
    /\ preBuffer' = buffer
    /\ preVcom' = vcom
    /\ prevCmd' = LastCmd
    /\ UNCHANGED <<width, height, bytes_per_line, vcom, txCalls>>

----------------------------------------------------------------------------
\* clear_buffer

\* clear_buffer taken for a transmission: it toggles the polarity as well.
ClearBufferToggling ==
    /\ Alive
    /\ op' = "clear_buffer"
    /\ arg' = NoArg
    /\ ret' = "ok"
    /\ buffer' = [i \in 1..Len(buffer) |-> Row(bytes_per_line, 255)]
    /\ drawn' = [q \in Pixels |-> 1]
    /\ vcom' = ToggleVcom(vcom)
    /\ writes' = << >>
    /\ preBuffer' = buffer
    /\ preVcom' = vcom
    /\ prevCmd' = LastCmd
    /\ UNCHANGED <<width, height, bytes_per_line, txCalls>>

\* clear_buffer extending every row by a cleared row instead of replacing it.
ClearBufferAppending ==
    /\ Alive
    /\ op' = "clear_buffer"
    /\ arg' = NoArg
    /\ ret' = "ok"
    /\ buffer' = [i \in 1..Len(buffer) |-> buffer[i] \o Row(bytes_per_line, 255)]
    /\ drawn' = [q \in Pixels |-> 1]
    /\ writes' = << >>
    /\ preBuffer' = buffer
    /\ preVcom' = vcom
    /\ prevCmd' = LastCmd
    /\ UNCHANGED <<width, height, bytes_per_line, vcom, txCalls>>

ClearBuffer ==
    /\ Alive
    /\ op' = "clear_buffer"
    /\ arg' = NoArg
    /\ ret' = "ok"
    /\ buffer' = [i \in 1..Len(buffer) |-> Row(bytes_per_line, 255)]
    /\ drawn' = [q \in Pixels |-> 1]
    /\ writes' = << >>
    /\ preBuffer' = buffer
    /\ preVcom' = vcom
    /\ prevCmd' = LastCmd
    /\ UNCHANGED <<width, height, bytes_per_line, vcom, txCalls>>

----------------------------------------------------------------------------
\* clear_display

\* The clear frame built after toggle_vcom instead of before it.
ClearCommandAfterToggle(v) ==
    <<BitOr(IF v # 0 THEN 0 ELSE SHARPMEM_CMD_VCOM, SHARPMEM_CMD_CLEAR_SCREEN), 0>>

ClearCommand(v) == <<BitOr(v, SHARPMEM_CMD_CLEAR_SCREEN), 0>>

\* clear_display clearing the local framebuffer together with the panel.
ClearDisplayClearingBuffer ==
    /\ Alive
    /\ txCalls < MaxTx
    /\ op' = "clear_display"
    /\ arg' = NoArg
    /\ \E written \in BOOLEAN :
          LET t == Transmit(ClearCommand(vcom), vcom, written)
          IN  /\ vcom' = t.vcom
              /\ writes' = t.writes
              /\ ret' = t.ret
    /\ buffer' = [i \in 1..Len(buffer) |-> Row(bytes_per_line, 255)]
    /\ txCalls' = txCalls + 1
    /\ preBuffer' = buffer
    /\ preVcom' = vcom
    /\ prevCmd' = LastCmd
    /\ UNCHANGED <<width, height, bytes_per_line, drawn>>

ClearDisplay ==
    /\ Alive
    /\ txCalls < MaxTx
    /\ op' = "clear_display"
    /\ arg' = NoArg
    /\ \E written \in BOOLEAN :
          LET t == Transmit(ClearCommand(vcom), vcom, written)
          IN  /\ vcom' = t.vcom
              /\ writes' = t.writes
              /\ ret' = t.ret
    /\ txCalls' = txCalls + 1
    /\ preBuffer' = buffer
    /\ preVcom' = vcom
    /\ prevCmd' = LastCmd
    /\ UNCHANGED <<width, height, bytes_per_line, buffer, drawn>>

----------------------------------------------------------------------------
\* refresh

\* Rows addressed from 0 instead of from 1.
LineAddressZeroBased(num) == num

\* The address of row num, num + 1; it is pushed as a u8.
LineAddress(num) == num + 1

\* One pass through the while loop of refresh: the guard, then the body.  st is
\* the loop's state: num, the commands built so far, and outcome, "loop" while
\* the loop runs.  num + 1 does not fit a u8 at num = 255, which panics with
\* overflow checks; without them the address and then num wrap to 0, the loop
\* is back at num = 0 with the same guard and never ends.
RefreshStep(buf, h, checks, st) ==
    IF st.outcome # "loop" THEN st
    ELSE IF ~(st.num < h)
    THEN [st EXCEPT !.outcome = "done", !.commands = @ \o <<0>>]
    ELSE IF st.num + 1 > Len(buf)
    THEN [st EXCEPT !.outcome = "panic"]
    ELSE IF LineAddress(st.num) >= U8
    THEN [st EXCEPT !.outcome = IF checks THEN "panic" ELSE "hang"]
    ELSE [st EXCEPT !.num = @ + 1,
                    !.commands = @ \o <<LineAddress(st.num)>> \o buf[st.num + 1] \o <<0>>]

\* n passes through the loop, or fewer when the loop is left before.
RECURSIVE RefreshSteps(_, _, _, _, _)
RefreshSteps(buf, h, checks, st, n) ==
    IF n = 0 THEN st
    ELSE IF n = 1 THEN RefreshStep(buf, h, checks, st)
    ELSE LET half == RefreshSteps(buf, h, checks, st, n \div 2)
         IN  IF half.outcome # "loop" THEN half
             ELSE RefreshSteps(buf, h, checks, half, n - (n \div 2))

\* The loop run from num = 0 until it is left: at most h + 1 passes.
RefreshLoop(buf, h, checks, command) ==
    RefreshSteps(buf, h, checks, [num |-> 0, commands |-> <<command>>, outcome |-> "loop"], h + 1)

WriteCommand(v) == BitOr(v, SHARPMEM_CMD_WRITE_LINE)

Refresh ==
    /\ Alive
    /\ txCalls < MaxTx
    /\ op' = "refresh"
    /\ arg' = NoArg
    /\ \E checks \in BOOLEAN :
       LET r == RefreshLoop(buffer, height, checks, WriteCommand(vcom))
       IN  IF r.outcome = "done"
           THEN \E written \in BOOLEAN :
                   LET t == Transmit(r.commands, vcom, written)
                   IN  /\ vcom' = t.vcom
                       /\ writes' = t.writes
                       /\ ret' = t.ret
           ELSE /\ vcom' = vcom
                /\ writes' = << >>
                /\ ret' = r.outcome
    /\ txCalls' = txCalls + 1
    /\ preBuffer' = buffer
    /\ preVcom' = vcom
    /\ prevCmd' = LastCmd
    /\ UNCHANGED <<width, height, bytes_per_line, buffer, drawn>>

----------------------------------------------------------------------------
\* refresh_line

\* The line numbers refresh_line is called with (line_num is a u8).
LineInputs ==
    {n \in {0, height - 1, height, height + 1} : n < U8}

\* The line check one further off.
LineRejectedLate(line_num) == line_num > height + 1

LineRejected(line_num) == line_num > height

RefreshLine ==
    /\ Alive
    /\ \E line_num \in LineInputs, checks \in BOOLEAN :
          /\ line_num < height => txCalls < MaxTx
          /\ op' = "refresh_line"
          /\ arg' = [x |-> 0, y |-> 0, value |-> FALSE, line_num |-> line_num]
          /\ txCalls' = IF line_num < height THEN txCalls + 1 ELSE txCalls
          /\ IF LineRejected(line_num)
             THEN /\ ret' = "bounds_err"
                  /\ writes' = << >>
             ELSE IF LineAddress(line_num) >= U8 /\ checks
             THEN /\ ret' = "panic"
                  /\ writes' = << >>
             ELSE IF line_num + 1 > Len(buffer)
             THEN /\ ret' = "panic"
                  /\ writes' = << >>
             ELSE \E written \in BOOLEAN :
                     /\ writes' = << <<WriteCommand(vcom), LineAddress(line_num) % U8>>
                                     \o buffer[line_num + 1] \o <<0, 0>> >>
                     /\ ret' = IF written THEN "ok" ELSE "transport_err"
    /\ preBuffer' = buffer
    /\ preVcom' = vcom
    /\ prevCmd' = LastCmd
    /\ UNCHANGED <<width, height, bytes_per_line, buffer, vcom, drawn>>

----------------------------------------------------------------------------

Next == SetPixel \/ ClearBuffer \/ ClearDisplay \/ Refresh \/ RefreshLine

Spec == Init /\ [][Next]_vars

TypeOK ==
    /\ vcom \in 0..255
    /\ Len(buffer) = height
    /\ txCalls \in 0..MaxTx

----------------------------------------------------------------------------
\* What the properties below are stated with.  These are written from the
\* protocol description, not from the operators that model the code.

\* The last call returned to its caller (with success or an error value).
Returned == ret \in {"ok", "bounds_err", "transport_err"}

\* The last call reached device.write and returned its result.
Wrote == ret \in {"ok", "transport_err"}

Flipped(p) == IF p = 0 THEN 2 ELSE 0

\* The bit of pixel (x, y) in buf: bit x mod 8 of byte floor(x / 8) of row y;
\* -1 where buf has no such byte.
PixelBit(buf, x, y) ==
    IF y + 1 \in DOMAIN buf /\ (x \div 8) + 1 \in DOMAIN buf[y + 1]
    THEN (buf[y + 1][(x \div 8) + 1] \div (2 ^ (x % 8))) % 2
    ELSE -1

\* b and c are bytes that differ at most in bit i.
SameButBit(b, c, i) ==
    \A k \in 0..7 : k # i => (b \div (2 ^ k)) % 2 = (c \div (2 ^ k)) % 2

\* buf and old are the same framebuffer but for the bit of pixel (x, y).
SameButPixel(buf, old, x, y) ==
    /\ DOMAIN buf = DOMAIN old
    /\ \A r \in DOMAIN buf :
          /\ DOMAIN buf[r] = DOMAIN old[r]
          /\ \A j \in DOMAIN buf[r] :
                IF r = y + 1 /\ j = (x \div 8) + 1
                THEN SameButBit(buf[r][j], old[r][j], x % 8)
                ELSE buf[r][j] = old[r][j]

\* f is the full-refresh frame of framebuffer buf under polarity p (0 or 2):
\* the command byte, then per row its 1-based address, its bytes and a 0x00,
\* then a closing 0x00.
IsFullFrame(f, p, buf) ==
    LET h == Len(buf)
        Start(i) == 1 + (i - 1) * (Len(buf[1]) + 2)  \* position before row i's group
    IN  /\ h >= 1
        /\ \A i \in 1..h : Len(buf[i]) = Len(buf[1])
        /\ Len(f) = Start(h + 1) + 1
        /\ f[1] = p + 1
        /\ \A i \in 1..h :
              /\ f[Start(i) + 1] = i
              /\ \A j \in 1..Len(buf[i]) : f[Start(i) + 1 + j] = buf[i][j]
              /\ f[Start(i) + Len(buf[i]) + 2] = 0
        /\ f[Len(f)] = 0

\* f is the single-line frame of row number line (0-based) of buf under polarity p.
IsLineFrame(f, p, buf, line) ==
    LET row == buf[line + 1]
    IN  /\ Len(f) = Len(row) + 4
        /\ f[1] = p + 1
        /\ f[2] = line + 1
        /\ \A j \in 1..Len(row) : f[2 + j] = row[j]
        /\ f[Len(f) - 1] = 0
        /\ f[Len(f)] = 0

InBounds == arg.x < width /\ arg.y < height

----------------------------------------------------------------------------
\* C1: after any sequence of clear_display, refresh and in-range refresh_line
\* calls on a fresh driver, the polarity bit differs from its initial value
\* exactly when the number of those calls is odd.
C1_PolarityFollowsCallParity ==
    Returned => ((vcom # 0) <=> (txCalls % 2 = 1))

\* C2: set_pixel(x, y, v) with x < width and y < height returns success, leaves
\* the bit of pixel (x, y) at 1 for v = true and at 0 for v = false, and changes
\* no other bit of the framebuffer.
C2_SetPixelWritesThePixelBit ==
    (op = "set_pixel" /\ InBounds) =>
        /\ ret = "ok"
        /\ PixelBit(buffer, arg.x, arg.y) = (IF arg.value THEN 1 ELSE 0)
        /\ SameButPixel(buffer, preBuffer, arg.x, arg.y)

\* C3: for in-bounds coordinates the byte position set_pixel accesses in row y
\* is floor(x / 8), and it lies inside the row (below width / 8).
C3_ByteIndexIsGroupOfX ==
    (op = "set_pixel" /\ InBounds) =>
        /\ Whole(arg.x) = arg.x \div 8
        /\ Whole(arg.x) < width \div 8

\* C4: set_pixel with x >= width or y >= height returns a bounds error, leaves
\* the framebuffer as it was, writes nothing to the transport and keeps the
\* polarity bit.
C4_OutOfBoundsPixelRejected ==
    (op = "set_pixel" /\ ~InBounds) =>
        /\ ret = "bounds_err"
        /\ buffer = preBuffer
        /\ writes = << >>
        /\ vcom = preVcom

C4_Witness ==
    /\ op = "set_pixel"
    /\ arg.y >= height
    /\ ret = "bounds_err"
    /\ buffer # NewBuffer(width, height)

C6_LineFrameForEveryRow ==
    (op = "refresh_line" /\ arg.line_num < height) =>
        /\ Wrote
        /\ Len(writes) = 1
        /\ IsLineFrame(writes[1], preVcom, preBuffer, arg.line_num)

\* C7: refresh_line(height) passes the bounds check and completes with one
\* transport write of a frame built from a row the framebuffer has; every
\* accepted line number addresses an existing row; refresh_line(height + 1)
\* fails with a bounds error.
C7_InclusiveBoundCompletes ==
    op = "refresh_line" =>
        /\ arg.line_num = height => (Wrote /\ Len(writes) = 1)
        /\ ret # "bounds_err" => arg.line_num + 1 \in DOMAIN preBuffer
        /\ arg.line_num = height + 1 => ret = "bounds_err"

\* C8: refresh_line(line_num) with line_num > height returns a bounds error,
\* writes nothing to the transport and leaves framebuffer and polarity as they
\* were.
C8_LineAboveHeightRejected ==
    (op = "refresh_line" /\ arg.line_num > height) =>
        /\ ret = "bounds_err"
        /\ writes = << >>
        /\ buffer = preBuffer
        /\ vcom = preVcom

C8_Witness ==
    /\ op = "refresh_line"
    /\ arg.line_num = height + 1
    /\ ret = "bounds_err"
    /\ vcom = 2
    /\ buffer # NewBuffer(width, height)

\* C9: clear_display() hands the transport the two bytes p OR 0x04, 0x00 with p
\* the polarity bit before the call.
C9_ClearFrame ==
    op = "clear_display" =>
        writes = << <<(IF preVcom = 0 THEN 4 ELSE 6), 0>> >>

C9_Witness ==
    /\ op = "clear_display"
    /\ preVcom = 2
    /\ writes = << <<6, 0>> >>

\* C10: when the transport write of clear_display() or refresh() fails, the
\* call returns the failure and the polarity bit is flipped all the same.
C10_ToggleSurvivesFailedWrite ==
    (op \in {"clear_display", "refresh"} /\ Len(writes) = 1 /\ ret # "ok") =>
        /\ ret = "transport_err"
        /\ vcom = Flipped(preVcom)

C10_Witness ==
    /\ op = "refresh"
    /\ ret = "transport_err"
    /\ preVcom = 2
    /\ vcom = 0

\* The polarity bit (0x02) of a command byte.
Polarity(cmd) == (cmd \div 2) % 2

\* The framebuffer of a freshly constructed driver: height rows of width / 8
\* bytes 0xFF.
FreshBuffer == [i \in 1..height |-> [j \in 1..(width \div 8) |-> 255]]

Transmission == op \in {"clear_display", "refresh", "refresh_line"}

----------------------------------------------------------------------------
\* C11: after clear_buffer() every byte of every row is 0xFF and the
\* framebuffer equals that of a freshly constructed driver of the same width
\* and height.
C11_ClearBufferRestoresFresh ==
    op = "clear_buffer" =>
        /\ \A i \in DOMAIN buffer : \A j \in DOMAIN buffer[i] : buffer[i][j] = 255
        /\ buffer = FreshBuffer

\* C12: in every reachable state the framebuffer has height rows of width / 8
\* bytes each, and width and height are those of construction.
C12_BufferShapeFixed ==
    /\ [width |-> width, height |-> height] \in Panels
    /\ Len(buffer) = height
    /\ \A i \in DOMAIN buffer : Len(buffer[i]) = width \div 8

\* C13: set_pixel (successful or failing) and clear_buffer issue no transport
\* write and leave the polarity bit as it was.
C13_BufferCallsDoNoIO ==
    op \in {"set_pixel", "clear_buffer"} =>
        /\ writes = << >>
        /\ vcom = preVcom
        /\ LastCmd = prevCmd

C13_Witness ==
    /\ op = "clear_buffer"
    /\ buffer # preBuffer
    /\ preVcom = 2
    /\ prevCmd # -1

\* C14: clear_display, refresh and refresh_line leave the framebuffer as it
\* was, whether the write succeeds or fails; a refresh after a clear_display
\* still sends the pixels drawn before.
C14_TransmissionKeepsBuffer ==
    Transmission => buffer = preBuffer

C14_Witness ==
    /\ op = "refresh"
    /\ Wrote
    /\ prevCmd \in {4, 6}
    /\ buffer # FreshBuffer
    /\ IsFullFrame(writes[1], preVcom, buffer)

\* C15: every clear_display, refresh and refresh_line call with an accepted
\* line number makes exactly one transport write attempt and returns its
\* outcome.
C15_OneWritePerTransmission ==
    (op \in {"clear_display", "refresh"} \/ (op = "refresh_line" /\ arg.line_num <= height)) =>
        /\ Len(writes) = 1
        /\ Wrote

\* C16: a clear_buffer() that follows a clear_buffer() changes neither the
\* framebuffer nor the polarity bit.
C16_ClearBufferIdempotent ==
    [][(op = "clear_buffer" /\ op' = "clear_buffer") => (buffer' = buffer /\ vcom' = vcom)]_vars

\* A clear_buffer on the framebuffer an earlier clear_buffer left: on the
\* 2048-wide panel only clear_buffer produces empty rows.
C16_Witness ==
    /\ op = "clear_buffer"
    /\ width = 2048
    /\ preBuffer = [i \in 1..height |-> << >>]
    /\ buffer = preBuffer
    /\ vcom = 2

\* C17: the polarity bit of the command byte alternates from each frame handed
\* to the transport to the next, and is clear in the first frame.
C17_PolarityAlternatesBetweenFrames ==
    writes # << >> =>
        IF prevCmd = -1
        THEN Polarity(writes[1][1]) = 0
        ELSE Polarity(writes[1][1]) # Polarity(prevCmd)

\* C18: for every height refresh() ends: it visits each row once, issues its
\* one transport write and returns.
C18_RefreshReturns ==
    op = "refresh" =>
        /\ Wrote
        /\ Len(writes) = 1
        /\ Len(writes[1]) = 2 + height * (Len(preBuffer[1]) + 2)

\* C19: after any sequence of successful set_pixel calls and clear_buffer
\* calls, the bit of every pixel (bit x mod 8 of byte floor(x / 8) of row y) is
\* the value of the last set_pixel on it since the last clear_buffer, 1 if none.
C19_BufferRecordsPixelWrites ==
    \A q \in Pixels : PixelBit(buffer, q[1], q[2]) = drawn[q]

\* C20: the stored polarity is 0x00 or 0x02 and the command byte of every frame
\* handed to the transport is one of 0x01, 0x03, 0x04, 0x06.
C20_CommandBytes ==
    /\ vcom \in {0, 2}
    /\ writes # << >> => writes[1][1] \in {1, 3, 4, 6}
    /\ prevCmd \in {-1, 1, 3, 4, 6}

C20_Witness ==
    /\ op = "clear_display"
    /\ vcom = 0
    /\ writes = << <<6, 0>> >>
    /\ prevCmd = 1

====
